---- MODULE Spec2Model ----
(***************************************************************************)
(* maschine.rs: the user-space driver of a Maschine control surface.       *)
(* The model covers src/main.rs: the translator MHandler (pad, button and  *)
(* encoder callbacks, inbound OSC dispatch, the pressure shaper and the    *)
(* protocol tables), the event loop ev_loop and the start-up in main.      *)
(* The Device Interface (trait Maschine of mod base, implemented by        *)
(* devices::mk2::Mikro) is outside main.rs: the handler's calls into it    *)
(* are recorded, and its storage is modelled as the specification gives it.*)
(***************************************************************************)
EXTENDS Integers, Sequences, FiniteSets, TLC

\* ------------------------------------------------------------------ bounds
\* Pad pressures are the normalised values n / PressureSteps, n in 0..PressureSteps.
PressureSteps == 4
\* Hardware callbacks and OSC datagrams handled in one run of the event loop.
MaxEvents == 3

\* ------------------------------------------------------- program constants
\* poll(&mut fds, 16)
PollTimeoutMs == 16
\* let timer_interval = Duration::from_millis(16)
TimerIntervalMs == 16
\* let controlbase = 40
controlbase == 40
\* the 24-bit mask 0xFFFFFF applied to an inbound colour, and full white
ColorMask == 16777215
\* u8: the note base, PAD_NOTE_MAP's entries (U7 = u8) and their sum
U8Modulus == 256
\* the scale of a MIDI velocity: `* 127.0`
VelScale == 127
\* &msg.path[17..]
ButtonNameOffset == 17

\* ------------------------------------------------------------------ values
\* Option<T>
None == << >>
Some(x) == << x >>

\* An f32 is kept exactly: (num / den) ^ (1 / root), root 1 for a plain rational
\* and root 2 for the result of f32::sqrt.
F32(n, d) == [num |-> n, den |-> d, root |-> 1]
F32Zero == F32(0, 1)
\* pressure.sqrt()
Sqrt(x) == [num |-> x.num, den |-> x.den, root |-> 2 * x.root]
\* `val as f32` of an i32, `status as f32` of a usize (exact below 2^24)
IntAsF32(i) == F32(i, 1)
\* `x as u8` of a wider integer: the low 8 bits
AsU8(i) == i % U8Modulus
\* the colour passed on without the mask
MaskColorOmitted(color) == color
\* `(color as u32) & 0xFFFFFF` of an i32: the low 24 bits of its two's complement
MaskColor(color) == color % (ColorMask + 1)
\* `pad as usize` of an i32: a negative value wraps to the top of the usize range,
\* kept here as its (negative) distance from 2^64.
AsUsize(i) == i

\* const PAD_RELEASED_BRIGHTNESS: f32 = 0.015
PAD_RELEASED_BRIGHTNESS == F32(15, 1000)

\* const PAD_NOTE_MAP: [U7; 16] (index 0 is element 1 of the tuple)
PAD_NOTE_MAP == << 12, 13, 14, 15, 8, 9, 10, 11, 4, 5, 6, 7, 0, 1, 2, 3 >>
PadIndices == 0 .. 15

\* enum PressureShape { Linear, Exponential(f32), Constant(f32) }; the parameter
\* of Exponential and Constant is the rational num / den.
Linear == [shape |-> "Linear", num |-> 1, den |-> 1]
Exponential(n, d) == [shape |-> "Exponential", num |-> n, den |-> d]
Constant(n, d) == [shape |-> "Constant", num |-> n, den |-> d]

\* --------------------------------------------- exact arithmetic for powf
\* Naturals beyond 2^31 as little-endian sequences of limbs below LimbBase.
LimbBase == 100 * 100
RECURSIVE BigNorm(_, _)
BigNorm(limbs, carry) ==
  IF limbs = << >>
    THEN IF carry = 0 THEN << >> ELSE << carry % LimbBase >> \o BigNorm(<< >>, carry \div LimbBase)
    ELSE << (Head(limbs) + carry) % LimbBase >>
           \o BigNorm(Tail(limbs), (Head(limbs) + carry) \div LimbBase)
BigOf(n) == BigNorm(<< >>, n)
\* x * k for a small k
BigMul(x, k) == BigNorm([i \in 1 .. Len(x) |-> x[i] * k], 0)
RECURSIVE BigMulPow(_, _, _)
\* x * k^e
BigMulPow(x, k, e) == IF e = 0 THEN x ELSE BigMulPow(BigMul(x, k), k, e - 1)
RECURSIVE BigStrip(_)
BigStrip(x) ==
  IF x # << >> /\ x[Len(x)] = 0 THEN BigStrip(SubSeq(x, 1, Len(x) - 1)) ELSE x
RECURSIVE BigLeqAt(_, _, _)
BigLeqAt(x, y, i) ==
  IF i = 0 THEN TRUE
  ELSE IF x[i] # y[i] THEN x[i] < y[i] ELSE BigLeqAt(x, y, i - 1)
BigLeq(a, b) ==
  LET x == BigStrip(a)
      y == BigStrip(b)
  IN  IF Len(x) # Len(y) THEN Len(x) < Len(y) ELSE BigLeqAt(x, y, Len(x))

\* x <= scale * (pn/pd)^(en/ed), for scale > 0, pn/pd >= 0 and en/ed > 0:
\* x <= 0, or x^ed * pd^en <= scale^ed * pn^en.
PowLeq(x, scale, pn, pd, en, ed) ==
  \/ x <= 0
  \/ BigLeq(BigMulPow(BigMulPow(BigOf(1), x, ed), pd, en),
            BigMulPow(BigMulPow(BigOf(1), scale, ed), pn, en))

\* v <= 127 * (pn/pd)^(en/ed)
VelAtMostPow(v, pn, pd, en, ed) == PowLeq(v, VelScale, pn, pd, en, ed)

\* `x as U7` of a non-negative f32 x is its integer part, saturating at 255:
\* floor(127 * (pn/pd)^(en/ed)) is the largest v in lo..hi the inequality admits
\* (lo always admits it).
RECURSIVE FloorVelPow(_, _, _, _, _, _)
FloorVelPow(lo, hi, pn, pd, en, ed) ==
  IF lo >= hi THEN lo
  ELSE LET mid == (lo + hi + 1) \div 2
       IN  IF VelAtMostPow(mid, pn, pd, en, ed)
             THEN FloorVelPow(mid, hi, pn, pd, en, ed)
             ELSE FloorVelPow(lo, mid - 1, pn, pd, en, ed)

\* The nearest integer to 127 * (pn/pd)^(en/ed), halves away from zero: the largest
\* v in lo..hi with v - 1/2 <= 127 * (pn/pd)^(en/ed), i.e. 2v - 1 <= 254 * (...).
RECURSIVE RoundVelPow(_, _, _, _, _, _)
RoundVelPow(lo, hi, pn, pd, en, ed) ==
  IF lo >= hi THEN lo
  ELSE LET mid == (lo + hi + 1) \div 2
       IN  IF PowLeq(2 * mid - 1, 2 * VelScale, pn, pd, en, ed)
             THEN RoundVelPow(mid, hi, pn, pd, en, ed)
             ELSE RoundVelPow(lo, mid - 1, pn, pd, en, ed)

\* The identifiers of enum MaschineButton: the match of btn_to_osc_button_map has no
\* wildcard arm, so its arms list every variant.
MaschineButton ==
  { "Restart", "Stepleft", "Stepright", "Grid", "Play", "Rec", "Erase", "Shift",
    "Browse", "Sampling", "Noterepeat", "Encoder", "F1", "F2", "F3", "F4",
    "F5", "F6", "F7", "F8", "Swing", "Step", "Volume", "Enter",
    "Auto", "All", "Navigate", "Tempo", "Control", "Nav", "Navleft", "Navright",
    "Main", "Scene", "Pattern", "Padmode", "View", "Duplicate", "Select", "Solo",
    "Mute", "GroupA", "GroupB", "GroupC", "GroupD", "GroupE", "GroupF", "GroupG",
    "GroupH", "Pageright", "Pageleft", "R1", "R2", "R3", "R4", "R5",
    "R6", "R7", "R8", "A1", "A2", "A3", "A4", "A5",
    "A6", "A7", "A8", "B1", "B2", "B3", "B4", "B5",
    "B6", "B7", "B8", "C1", "C2", "C3", "C4", "C5",
    "C6", "C7", "C8", "D1", "D2", "D3", "D4", "D5",
    "D6", "D7", "D8", "E1", "E2", "E3", "E4", "E5",
    "E6", "E7", "E8", "FF1", "FF2", "FF3", "FF4", "FF5",
    "FF6", "FF7", "FF8", "G1", "G2", "G3", "G4", "G5",
    "G6", "G7", "G8", "H1", "H2", "H3", "H4", "H5",
    "H6", "H7", "H8", "I1", "I2", "I3", "I4", "I5",
    "I6", "I7", "I8", "J1", "J2", "J3", "J4", "J5",
    "J6", "J7", "J8", "K1", "K2", "K3", "K4", "K5",
    "K6", "K7", "K8", "L1", "L2", "L3", "L4", "L5",
    "L6", "L7", "L8", "M1", "M2", "M3", "M4", "M5",
    "M6", "M7", "M8", "N1", "N2", "N3", "N4", "N5",
    "N6", "N7", "N8", "O1", "O2", "O3", "O4", "O5",
    "O6", "O7", "O8", "P1", "P2", "P3", "P4", "P5",
    "P6", "P7", "P8" }

\* fn btn_to_osc_button_map(btn: MaschineButton) -> &'static str
btn_to_osc_button_map(btn) ==
  CASE btn = "Restart" -> "restart" [] btn = "Stepleft" -> "step_left" [] btn = "Stepright" -> "step_right"
    [] btn = "Grid" -> "grid" [] btn = "Play" -> "play" [] btn = "Rec" -> "rec"
    [] btn = "Erase" -> "stop" [] btn = "Shift" -> "shift" [] btn = "Browse" -> "browse"
    [] btn = "Sampling" -> "sampling" [] btn = "Noterepeat" -> "note_repeat" [] btn = "Encoder" -> "encoder"
    [] btn = "F1" -> "f1" [] btn = "F2" -> "f2" [] btn = "F3" -> "f3"
    [] btn = "F4" -> "f4" [] btn = "F5" -> "f5" [] btn = "F6" -> "f6"
    [] btn = "F7" -> "f7" [] btn = "F8" -> "f8" [] btn = "Swing" -> "swing"
    [] btn = "Step" -> "step" [] btn = "Volume" -> "volume" [] btn = "Enter" -> "enter"
    [] btn = "Auto" -> "auto" [] btn = "All" -> "all" [] btn = "Navigate" -> "navigate"
    [] btn = "Tempo" -> "tempo" [] btn = "Control" -> "control" [] btn = "Nav" -> "nav"
    [] btn = "Navleft" -> "nav_left" [] btn = "Navright" -> "nav_right" [] btn = "Main" -> "main"
    [] btn = "Scene" -> "scene" [] btn = "Pattern" -> "pattern" [] btn = "Padmode" -> "pad_mode"
    [] btn = "View" -> "view" [] btn = "Duplicate" -> "duplicate" [] btn = "Select" -> "select"
    [] btn = "Solo" -> "solo" [] btn = "Mute" -> "mute" [] btn = "GroupA" -> "group_a"
    [] btn = "GroupB" -> "group_b" [] btn = "GroupC" -> "group_c" [] btn = "GroupD" -> "group_d"
    [] btn = "GroupE" -> "group_e" [] btn = "GroupF" -> "group_f" [] btn = "GroupG" -> "group_g"
    [] btn = "GroupH" -> "group_h" [] btn = "Pageright" -> "page_right" [] btn = "Pageleft" -> "page_left"
    [] btn = "R1" -> "R1" [] btn = "R2" -> "R2" [] btn = "R3" -> "R3"
    [] btn = "R4" -> "R4" [] btn = "R5" -> "R5" [] btn = "R6" -> "R6"
    [] btn = "R7" -> "R7" [] btn = "R8" -> "R8" [] btn = "A1" -> "A1"
    [] btn = "A2" -> "A2" [] btn = "A3" -> "A3" [] btn = "A4" -> "A4"
    [] btn = "A5" -> "A5" [] btn = "A6" -> "A6" [] btn = "A7" -> "A7"
    [] btn = "A8" -> "A8" [] btn = "B1" -> "B1" [] btn = "B2" -> "B2"
    [] btn = "B3" -> "B3" [] btn = "B4" -> "B4" [] btn = "B5" -> "B5"
    [] btn = "B6" -> "B6" [] btn = "B7" -> "B7" [] btn = "B8" -> "B8"
    [] btn = "C1" -> "C1" [] btn = "C2" -> "C2" [] btn = "C3" -> "C3"
    [] btn = "C4" -> "C4" [] btn = "C5" -> "C5" [] btn = "C6" -> "C6"
    [] btn = "C7" -> "C7" [] btn = "C8" -> "C8" [] btn = "D1" -> "D1"
    [] btn = "D2" -> "D2" [] btn = "D3" -> "D3" [] btn = "D4" -> "D4"
    [] btn = "D5" -> "D5" [] btn = "D6" -> "D6" [] btn = "D7" -> "D7"
    [] btn = "D8" -> "D8" [] btn = "E1" -> "E1" [] btn = "E2" -> "E2"
    [] btn = "E3" -> "E3" [] btn = "E4" -> "E4" [] btn = "E5" -> "E5"
    [] btn = "E6" -> "E6" [] btn = "E7" -> "E7" [] btn = "E8" -> "E8"
    [] btn = "FF1" -> "FF1" [] btn = "FF2" -> "FF2" [] btn = "FF3" -> "FF3"
    [] btn = "FF4" -> "FF4" [] btn = "FF5" -> "FF5" [] btn = "FF6" -> "FF6"
    [] btn = "FF7" -> "FF8" [] btn = "FF8" -> "FF8" [] btn = "G1" -> "G1"
    [] btn = "G2" -> "G2" [] btn = "G3" -> "G3" [] btn = "G4" -> "G4"
    [] btn = "G5" -> "G5" [] btn = "G6" -> "G6" [] btn = "G7" -> "G7"
    [] btn = "G8" -> "G8" [] btn = "H1" -> "H1" [] btn = "H2" -> "H2"
    [] btn = "H3" -> "H3" [] btn = "H4" -> "H4" [] btn = "H5" -> "H5"
    [] btn = "H6" -> "H6" [] btn = "H7" -> "H7" [] btn = "H8" -> "H8"
    [] btn = "I1" -> "I1" [] btn = "I2" -> "I2" [] btn = "I3" -> "I3"
    [] btn = "I4" -> "I4" [] btn = "I5" -> "I5" [] btn = "I6" -> "I6"
    [] btn = "I7" -> "I7" [] btn = "I8" -> "I8" [] btn = "J1" -> "J1"
    [] btn = "J2" -> "J2" [] btn = "J3" -> "J3" [] btn = "J4" -> "J4"
    [] btn = "J5" -> "J5" [] btn = "J6" -> "J6" [] btn = "J7" -> "J7"
    [] btn = "J8" -> "J8" [] btn = "K1" -> "K1" [] btn = "K2" -> "K2"
    [] btn = "K3" -> "K3" [] btn = "K4" -> "K4" [] btn = "K5" -> "K5"
    [] btn = "K6" -> "K6" [] btn = "K7" -> "K7" [] btn = "K8" -> "K8"
    [] btn = "L1" -> "L1" [] btn = "L2" -> "L2" [] btn = "L3" -> "L3"
    [] btn = "L4" -> "L4" [] btn = "L5" -> "L5" [] btn = "L6" -> "L6"
    [] btn = "L7" -> "L7" [] btn = "L8" -> "L8" [] btn = "M1" -> "M1"
    [] btn = "M2" -> "M2" [] btn = "M3" -> "M3" [] btn = "M4" -> "M4"
    [] btn = "M5" -> "M5" [] btn = "M6" -> "M6" [] btn = "M7" -> "M7"
    [] btn = "M8" -> "M8" [] btn = "N1" -> "N1" [] btn = "N2" -> "N2"
    [] btn = "N3" -> "N3" [] btn = "N4" -> "N4" [] btn = "N5" -> "N5"
    [] btn = "N6" -> "N6" [] btn = "N7" -> "N7" [] btn = "N8" -> "N8"
    [] btn = "O1" -> "O1" [] btn = "O2" -> "O2" [] btn = "O3" -> "O3"
    [] btn = "O4" -> "O4" [] btn = "O5" -> "O5" [] btn = "O6" -> "O6"
    [] btn = "O7" -> "O7" [] btn = "O8" -> "O8" [] btn = "P1" -> "P1"
    [] btn = "P2" -> "P2" [] btn = "P3" -> "P3" [] btn = "P4" -> "P4"
    [] btn = "P5" -> "P5" [] btn = "P6" -> "P6" [] btn = "P7" -> "P7"
    [] btn = "P8" -> "P8"

\* fn osc_button_to_btn_map(osc_button: &str) -> Option<MaschineButton>
osc_button_to_btn_map(osc_button) ==
  CASE osc_button = "restart" -> Some("Restart") [] osc_button = "step_left" -> Some("Stepleft")
    [] osc_button = "step_right" -> Some("Stepright") [] osc_button = "grid" -> Some("Grid")
    [] osc_button = "play" -> Some("Play") [] osc_button = "rec" -> Some("Rec")
    [] osc_button = "stop" -> Some("Erase") [] osc_button = "shift" -> Some("Shift")
    [] osc_button = "browse" -> Some("Browse") [] osc_button = "sampling" -> Some("Sampling")
    [] osc_button = "note_repeat" -> Some("Noterepeat") [] osc_button = "encoder" -> Some("Encoder")
    [] osc_button = "f1" -> Some("F1") [] osc_button = "f2" -> Some("F2")
    [] osc_button = "f3" -> Some("F3") [] osc_button = "f4" -> Some("F4")
    [] osc_button = "f5" -> Some("F5") [] osc_button = "f6" -> Some("F6")
    [] osc_button = "f7" -> Some("F7") [] osc_button = "f8" -> Some("F8")
    [] osc_button = "swing" -> Some("Swing") [] osc_button = "step" -> Some("Step")
    [] osc_button = "volume" -> Some("Volume") [] osc_button = "enter" -> Some("Enter")
    [] osc_button = "auto" -> Some("Auto") [] osc_button = "all" -> Some("All")
    [] osc_button = "navigate" -> Some("Navigate") [] osc_button = "tempo" -> Some("Tempo")
    [] osc_button = "control" -> Some("Control") [] osc_button = "nav" -> Some("Nav")
    [] osc_button = "nav_left" -> Some("Navleft") [] osc_button = "nav_right" -> Some("Navright")
    [] osc_button = "main" -> Some("Main") [] osc_button = "scene" -> Some("Scene")
    [] osc_button = "pattern" -> Some("Pattern") [] osc_button = "pad_mode" -> Some("Padmode")
    [] osc_button = "view" -> Some("View") [] osc_button = "duplicate" -> Some("Duplicate")
    [] osc_button = "select" -> Some("Select") [] osc_button = "solo" -> Some("Solo")
    [] osc_button = "mute" -> Some("Mute") [] osc_button = "group_a" -> Some("GroupA")
    [] osc_button = "group_b" -> Some("GroupB") [] osc_button = "group_c" -> Some("GroupC")
    [] osc_button = "group_d" -> Some("GroupD") [] osc_button = "group_e" -> Some("GroupE")
    [] osc_button = "group_f" -> Some("GroupF") [] osc_button = "group_g" -> Some("GroupG")
    [] osc_button = "group_h" -> Some("GroupH") [] osc_button = "page_right" -> Some("Pageright")
    [] osc_button = "page_left" -> Some("Pageleft")
    [] OTHER -> None

\* send_osc_button_msg, the arms guarded by `if status > 0`: the RPN7 parameter of each.
DownControllerNames ==
  { "play", "stop", "rec", "grid", "step_left", "step_right", "restart", "browse",
    "sampling", "note_repeat", "control", "nav", "nav_left", "nav_right", "main", "scene",
    "pattern", "pad_mode", "view", "duplicate", "select", "solo", "step", "mute",
    "navigate", "tempo", "enter", "auto", "all", "f1", "f2", "f3",
    "f4", "f5", "f6", "f7", "f8", "page_right", "page_left" }

DownController(button) ==
  CASE button = "play" -> 1 [] button = "stop" -> 2 [] button = "rec" -> 3 [] button = "grid" -> 4
    [] button = "step_left" -> 5 [] button = "step_right" -> 6 [] button = "restart" -> 7 [] button = "browse" -> 8
    [] button = "sampling" -> 9 [] button = "note_repeat" -> 10 [] button = "control" -> 11 [] button = "nav" -> 12
    [] button = "nav_left" -> 13 [] button = "nav_right" -> 14 [] button = "main" -> 15 [] button = "scene" -> 16
    [] button = "pattern" -> 17 [] button = "pad_mode" -> 18 [] button = "view" -> 19 [] button = "duplicate" -> 20
    [] button = "select" -> 21 [] button = "solo" -> 22 [] button = "step" -> 23 [] button = "mute" -> 24
    [] button = "navigate" -> 25 [] button = "tempo" -> 26 [] button = "enter" -> 27 [] button = "auto" -> 28
    [] button = "all" -> 29 [] button = "f1" -> 30 [] button = "f2" -> 31 [] button = "f3" -> 32
    [] button = "f4" -> 33 [] button = "f5" -> 34 [] button = "f6" -> 35 [] button = "f7" -> 36
    [] button = "f8" -> 37 [] button = "page_right" -> 38 [] button = "page_left" -> 39

\* send_osc_button_msg, the letter-grid arms: an RPN7 message on every event.
GridControllerNames ==
  { "A8", "B5", "B6", "B7", "B8", "C8", "D5", "D6", "D7", "D8",
    "E8", "FF5", "FF6", "FF7", "FF8", "G8", "H5", "H6", "H7", "H8",
    "I8", "J5", "J6", "J7", "J8", "K8", "L5", "L6", "L7", "L8",
    "M8", "N5", "N6", "N7", "N8", "O8", "P5", "P6" }

GridController(button) ==
  CASE button = "A8" -> controlbase [] button = "B5" -> controlbase + 1 [] button = "B6" -> controlbase + 1 [] button = "B7" -> controlbase + 1
    [] button = "B8" -> controlbase + 1 [] button = "C8" -> controlbase + 1 [] button = "D5" -> controlbase + 2 [] button = "D6" -> controlbase + 2
    [] button = "D7" -> controlbase + 2 [] button = "D8" -> controlbase + 2 [] button = "E8" -> controlbase + 2 [] button = "FF5" -> controlbase + 3
    [] button = "FF6" -> controlbase + 3 [] button = "FF7" -> controlbase + 3 [] button = "FF8" -> controlbase + 3 [] button = "G8" -> controlbase + 3
    [] button = "H5" -> controlbase + 4 [] button = "H6" -> controlbase + 4 [] button = "H7" -> controlbase + 4 [] button = "H8" -> controlbase + 4
    [] button = "I8" -> controlbase + 4 [] button = "J5" -> controlbase + 5 [] button = "J6" -> controlbase + 5 [] button = "J7" -> controlbase + 5
    [] button = "J8" -> controlbase + 5 [] button = "K8" -> controlbase + 5 [] button = "L5" -> controlbase + 6 [] button = "L6" -> controlbase + 6
    [] button = "L7" -> controlbase + 6 [] button = "L8" -> controlbase + 6 [] button = "M8" -> controlbase + 6 [] button = "N5" -> controlbase + 7
    [] button = "N6" -> controlbase + 7 [] button = "N7" -> controlbase + 7 [] button = "N8" -> controlbase + 7 [] button = "O8" -> controlbase + 7
    [] button = "P5" -> controlbase + 8 [] button = "P6" -> controlbase + 8

\* send_osc_button_msg, the group-select arms: the note base each one stores.
GroupNames ==
  { "group_a", "group_b", "group_c", "group_d", "group_e", "group_f", "group_g", "group_h" }

\* the group bases one group too high (group_a at 36)
GroupNoteBaseShifted(button) ==
  CASE button = "group_a" -> 36 [] button = "group_b" -> 48 [] button = "group_c" -> 60
    [] button = "group_d" -> 72 [] button = "group_e" -> 84 [] button = "group_f" -> 96
    [] button = "group_g" -> 108 [] button = "group_h" -> 120

GroupNoteBase(button) ==
  CASE button = "group_a" -> 24 [] button = "group_b" -> 36 [] button = "group_c" -> 48 [] button = "group_d" -> 60
    [] button = "group_e" -> 72 [] button = "group_f" -> 84 [] button = "group_g" -> 96 [] button = "group_h" -> 108
\* ------------------------------------------------------------------- state
VARIABLES
  pressure_shape,   \* MHandler.pressure_shape
  send_aftertouch,  \* MHandler.send_aftertouch
  overflow_checks,  \* the build: TRUE when integer overflow panics (debug profile)
  midi_note_base,   \* the device's note base, a u8
  pad_light,        \* the device's light table, pads: index -> [color, brightness]
  button_light,     \* the device's light table, buttons set so far: identifier -> [color, brightness]
  pad_pressure,     \* the device's last pressure sample of each pad held down, in PressureSteps-ths
  hw_lights,        \* the light table carried by the last write_lights
  aborted,          \* the process has panicked
  pc,               \* ev_loop's position: "poll", "hid", "osc", "timer"; "call" outside the loop
  revents,          \* what poll reported: [hid, osc]
  elapsed,          \* now.elapsed() in ms
  osc_queue,        \* the UDP socket's receive queue: datagrams arrived and not yet received
  n_events,         \* events handled so far
  ev,               \* the step just taken: the event handled, with the note base it found
  midi_out,         \* MIDI messages sent by the step just taken
  osc_out,          \* OSC datagrams handed to send_to by the step just taken
  dev_calls,        \* Device Interface calls made by the step just taken
  osc_base_cmd,     \* the argument of the last /maschine/midi_note_base command still in force
  osc_pad_cmd,      \* pad -> its last /maschine/pad command (color, brightness), if not overwritten since
  note_on,          \* pad held down -> the note of the Note On sent when it was pressed
  osc_failed,       \* send_to returned Err in the step just taken (printed and dropped)
  n_args,           \* args.len(): the program name and its arguments
  screen_calls,     \* the display calls main has made: "clear_screen", "write_screen"
  pads_lit          \* how many turns of main's `for i in 0..16` have run

config_vars == << pressure_shape, send_aftertouch, overflow_checks >>
device_vars == << midi_note_base, pad_light, button_light, pad_pressure, hw_lights >>
loop_vars == << pc, revents, elapsed, osc_queue >>
step_vars == << aborted, n_events, ev, midi_out, osc_out, dev_calls, osc_base_cmd, osc_pad_cmd,
               note_on, osc_failed >>
start_vars == << n_args, screen_calls, pads_lit >>
vars == << pressure_shape, send_aftertouch, overflow_checks, midi_note_base, pad_light,
           button_light, pad_pressure, hw_lights, aborted, pc, revents, elapsed, osc_queue,
           n_events, ev, midi_out, osc_out, dev_calls, osc_base_cmd, osc_pad_cmd,
           note_on, osc_failed, n_args, screen_calls, pads_lit >>

\* ------------------------------------------------------------ the messages
Light(color, brightness) == [color |-> color, brightness |-> brightness]

\* midi::Message, as the handler builds it: NoteOn / NoteOff (key = note, value = velocity),
\* PolyphonicPressure (key = note, value = pressure), RPN7 (key = parameter, value).
MidiMessage(type, key, value) == [type |-> type, ch |-> 1, key |-> key, value |-> value]

\* osc::Argument: i(i32), f(f32), and any other type ("s").
ArgI(i) == [t |-> "i", i |-> i, f |-> F32Zero]
ArgF(x) == [t |-> "f", i |-> 0, f |-> x]
ArgS == [t |-> "s", i |-> 0, f |-> F32Zero]
OscMessage(path, arguments) == [path |-> path, arguments |-> arguments]

\* A call of the Device Interface (trait Maschine) made by the handler.
SetPadLightCall(idx, color, brightness) ==
  [op |-> "set_pad_light", idx |-> idx, btn |-> "", color |-> color,
   brightness |-> brightness, base |-> 0]
SetButtonLightCall(btn, color, brightness) ==
  [op |-> "set_button_light", idx |-> 0, btn |-> btn, color |-> color,
   brightness |-> brightness, base |-> 0]
SetMidiNoteBaseCall(base) ==
  [op |-> "set_midi_note_base", idx |-> 0, btn |-> "", color |-> 0,
   brightness |-> F32Zero, base |-> base]

\* What one handler call did: the MIDI messages sent, the datagrams handed to
\* send_to, the Device Interface calls made, and whether it panicked.
Outcome(midi, osc, calls) == [midi |-> midi, osc |-> osc, calls |-> calls, panic |-> FALSE]
Nothing == Outcome(<< >>, << >>, << >>)
Panic == [midi |-> << >>, osc |-> << >>, calls |-> << >>, panic |-> TRUE]

\* ------------------------------------------------------- Device Interface
\* maschine.get_midi_note_base()
get_midi_note_base == midi_note_base

\* ------------------------------------------------------------- the handler
\* self.color = HSL { h: 0.0, s: 1.0, l: 0.3 } and its to_rgb(): (153, 0, 0)
ColorRgb == << 153, 0, 0 >>

\* fn pad_color(&self) -> u32
pad_color == (ColorRgb[1] * 65536) + (ColorRgb[2] * 256) + ColorRgb[3]

\* pressure_to_vel rounding to the nearest integer instead of truncating
ShapedVelRounded(shape, pressure) ==
  CASE shape.shape = "Linear" ->
         RoundVelPow(0, U8Modulus - 1, pressure.num, pressure.den, 1, 1)
    [] shape.shape = "Exponential" ->
         RoundVelPow(0, U8Modulus - 1, pressure.num, pressure.den, shape.num, shape.den)
    [] shape.shape = "Constant" ->
         RoundVelPow(0, U8Modulus - 1, shape.num, shape.den, 1, 1)

\* fn pressure_to_vel(&self, pressure: f32) -> U7, for a given shape:
\* (match shape { Linear => p, Exponential(k) => p.powf(k), Constant(c) => c } * 127.0) as U7.
\* The cast truncates toward zero and saturates at 255.
ShapedVel(shape, pressure) ==
  CASE shape.shape = "Linear" ->
         FloorVelPow(0, U8Modulus - 1, pressure.num, pressure.den, 1, 1)
    [] shape.shape = "Exponential" ->
         FloorVelPow(0, U8Modulus - 1, pressure.num, pressure.den, shape.num, shape.den)
    [] shape.shape = "Constant" ->
         FloorVelPow(0, U8Modulus - 1, shape.num, shape.den, 1, 1)

\* The shapes a handler is built with in this model, and pressure_to_vel of the
\* handler's shape, read from the table of ShapedVel over the model's pressures.
Shapes ==
  { Linear, Exponential(2, 5), Exponential(1, 2), Exponential(2, 1),
    Constant(1, 2), Constant(1, 1) }
VelTable ==
  [s \in Shapes, n \in 0 .. PressureSteps |-> ShapedVel(s, F32(n, PressureSteps))]
pressure_to_vel(pressure) == VelTable[pressure_shape, pressure.num]

\* get_midi_note_base() + PAD_NOTE_MAP[pad_idx], a u8 addition: the sum when it
\* fits, else a panic (overflow checks on) or the wrapped sum (checks off).
NoteOverflows(pad_idx) == get_midi_note_base + PAD_NOTE_MAP[pad_idx + 1] >= U8Modulus
MidiNote(pad_idx) == (get_midi_note_base + PAD_NOTE_MAP[pad_idx + 1]) % U8Modulus

\* fn pad_pressed(&mut self, maschine, pad_idx: usize, pressure: f32)
pad_pressed(pad_idx, pressure) ==
  IF NoteOverflows(pad_idx) /\ overflow_checks THEN Panic
  ELSE Outcome(<< MidiMessage("NoteOn", MidiNote(pad_idx), pressure_to_vel(pressure)) >>,
               << >>,
               << SetPadLightCall(pad_idx, pad_color, Sqrt(pressure)) >>)

\* fn pad_aftertouch(&mut self, maschine, pad_idx: usize, pressure: f32)
pad_aftertouch(pad_idx, pressure) ==
  IF pressure_shape.shape = "Constant" THEN Nothing
  ELSE IF ~send_aftertouch THEN Nothing
  ELSE IF NoteOverflows(pad_idx) /\ overflow_checks THEN Panic
  ELSE Outcome(<< MidiMessage("PolyphonicPressure", MidiNote(pad_idx),
                              pressure_to_vel(pressure)) >>,
               << >>,
               << SetPadLightCall(pad_idx, pad_color, Sqrt(pressure)) >>)

\* fn pad_released(&mut self, maschine, pad_idx: usize)
pad_released(pad_idx) ==
  IF NoteOverflows(pad_idx) /\ overflow_checks THEN Panic
  ELSE Outcome(<< MidiMessage("NoteOff", MidiNote(pad_idx), 0) >>,
               << >>,
               << SetPadLightCall(pad_idx, pad_color, PAD_RELEASED_BRIGHTNESS) >>)

\* the result of send_to unwrapped
send_to_failed_unwrapped(o) == Panic
\* send_osc_msg's `Err(e) => println!(...)`: the handler call goes on as it would have
send_to_failed(o) == o

\* fn send_osc_msg(&self, path: &str, arguments: Vec<osc::Argument>): one send_to
\* of the serialized message; an Err is printed and dropped.
send_osc_msg(path, arguments) == << OscMessage(path, arguments) >>

\* the encoder delta sent as a float, like a button status
send_osc_encoder_msg_as_float(delta) ==
  send_osc_msg("/maschine/encoder", << ArgF(IntAsF32(delta)) >>)

\* fn send_osc_encoder_msg(&self, delta: i32)
send_osc_encoder_msg(delta) == send_osc_msg("/maschine/encoder", << ArgI(delta) >>)

\* fn encoder_step(&mut self, _, _: usize, delta: i32)
encoder_step(index, delta) == Outcome(<< >>, send_osc_encoder_msg(delta), << >>)

\* send_osc_button_msg with the `if status > 0` guards left out
ButtonMidiEveryEvent(button, status) ==
  IF button \in DownControllerNames
    THEN << MidiMessage("RPN7", DownController(button), AsU8(status)) >>
  ELSE IF button \in GridControllerNames
    THEN << MidiMessage("RPN7", GridController(button), AsU8(status)) >>
  ELSE << >>

\* send_osc_button_msg with the letter-grid arms guarded by `if status > 0` too
ButtonMidiAllGuarded(button, status) ==
  IF status > 0
    THEN IF button \in DownControllerNames
           THEN << MidiMessage("RPN7", DownController(button), AsU8(status)) >>
         ELSE IF button \in GridControllerNames
           THEN << MidiMessage("RPN7", GridController(button), AsU8(status)) >>
         ELSE << >>
    ELSE << >>

\* send_osc_button_msg, the match on the button's OSC name: the MIDI messages sent
ButtonMidi(button, status) ==
  IF button \in DownControllerNames
    THEN IF status > 0
           THEN << MidiMessage("RPN7", DownController(button), AsU8(status)) >>
           ELSE << >>
  ELSE IF button \in GridControllerNames
    THEN << MidiMessage("RPN7", GridController(button), AsU8(status)) >>
  ELSE << >>

\* the match lighting the button it handles, on top of the group arms
ButtonCallsLighting(button) ==
  (IF button \in GroupNames THEN << SetMidiNoteBaseCall(GroupNoteBase(button)) >> ELSE << >>)
  \o (IF osc_button_to_btn_map(button) # None
        THEN << SetButtonLightCall(osc_button_to_btn_map(button)[1], ColorMask, F32(1, 1)) >>
        ELSE << >>)

\* the group arms lighting the pad of the selected group as well
ButtonCallsPadFeedback(button) ==
  IF button \in GroupNames
    THEN << SetMidiNoteBaseCall(GroupNoteBase(button)),
            SetPadLightCall((GroupNoteBase(button) \div 12) - 2, pad_color, F32(1, 1)) >>
    ELSE << >>

\* send_osc_button_msg, the match on the button's OSC name: the Device Interface calls
ButtonCalls(button) ==
  IF button \in GroupNames THEN << SetMidiNoteBaseCall(GroupNoteBase(button)) >> ELSE << >>

\* send_osc_button_msg returning from the arms that send MIDI, before the OSC mirror
send_osc_button_msg_midi_returns(btn, status) ==
  LET button == btn_to_osc_button_map(btn)
  IN  IF ButtonMidi(button, status) # << >>
        THEN Outcome(ButtonMidi(button, status), << >>, ButtonCalls(button))
        ELSE Outcome(<< >>,
                     send_osc_msg("/" \o button, << ArgF(IntAsF32(status)) >>),
                     ButtonCalls(button))

\* fn send_osc_button_msg(&mut self, maschine, btn: MaschineButton, status: usize)
send_osc_button_msg(btn, status) ==
  LET button == btn_to_osc_button_map(btn)
  IN  Outcome(ButtonMidi(button, status),
              send_osc_msg("/" \o button, << ArgF(IntAsF32(status)) >>),
              ButtonCalls(button))

\* fn button_down(&mut self, maschine, btn: MaschineButton, byte: u8)
button_down(btn, byte) == send_osc_button_msg(btn, byte)

\* fn button_up(&mut self, maschine, btn: MaschineButton, byte: u8)
button_up(btn, byte) == send_osc_button_msg(btn, byte)

\* str::starts_with
StartsWith(s, prefix) == Len(s) >= Len(prefix) /\ SubSeq(s, 1, Len(prefix)) = prefix

\* handle_osc_messge's button branch rejecting a brightness outside [0, 1]
HandleButtonLightClamped(msg) ==
  IF Len(msg.path) < ButtonNameOffset THEN Panic
  ELSE
    LET name == SubSeq(msg.path, ButtonNameOffset + 1, Len(msg.path))
        found == osc_button_to_btn_map(name)
        args == msg.arguments
        InRange(x) == 0 <= x.num /\ x.num <= x.den
    IN  IF found = None THEN Nothing
        ELSE IF Len(args) = 1
          THEN IF args[1].t = "i" /\ InRange(IntAsF32(args[1].i))
                 THEN Outcome(<< >>, << >>,
                        << SetButtonLightCall(found[1], ColorMask, IntAsF32(args[1].i)) >>)
               ELSE IF args[1].t = "f" /\ InRange(args[1].f)
                 THEN Outcome(<< >>, << >>,
                        << SetButtonLightCall(found[1], ColorMask, args[1].f) >>)
               ELSE Nothing
        ELSE IF Len(args) = 2
          THEN IF args[1].t = "i" /\ args[2].t = "f" /\ InRange(args[2].f)
                 THEN Outcome(<< >>, << >>,
                        << SetButtonLightCall(found[1], MaskColor(args[1].i), args[2].f) >>)
                 ELSE Nothing
        ELSE Nothing

\* handle_osc_messge, the branch of a path starting with "/maschine/button"
HandleButtonLight(msg) ==
  IF Len(msg.path) < ButtonNameOffset THEN Panic  \* &msg.path[17..] past the end
  ELSE
    LET name == SubSeq(msg.path, ButtonNameOffset + 1, Len(msg.path))
        found == osc_button_to_btn_map(name)
        args == msg.arguments
    IN  IF found = None THEN Nothing
        ELSE IF Len(args) = 1
          THEN IF args[1].t = "i"
                 THEN Outcome(<< >>, << >>,
                        << SetButtonLightCall(found[1], ColorMask, IntAsF32(args[1].i)) >>)
               ELSE IF args[1].t = "f"
                 THEN Outcome(<< >>, << >>,
                        << SetButtonLightCall(found[1], ColorMask, args[1].f) >>)
               ELSE Nothing
        ELSE IF Len(args) = 2
          THEN IF args[1].t = "i" /\ args[2].t = "f"
                 THEN Outcome(<< >>, << >>,
                        << SetButtonLightCall(found[1], MaskColor(args[1].i), args[2].f) >>)
                 ELSE Nothing
        ELSE Nothing

\* the pad branch answering an accepted command with an OSC datagram of its own
HandlePadLightEchoing(msg) ==
  LET args == msg.arguments
  IN  IF Len(args) = 3 /\ args[1].t = "i" /\ args[2].t = "i" /\ args[3].t = "f"
        THEN Outcome(<< >>, send_osc_msg("/pad", << ArgI(args[1].i) >>),
               << SetPadLightCall(AsUsize(args[1].i), MaskColor(args[2].i), args[3].f) >>)
        ELSE Nothing

\* handle_osc_messge, the branch of a path starting with "/maschine/pad"
HandlePadLight(msg) ==
  LET args == msg.arguments
  IN  IF Len(args) = 3 /\ args[1].t = "i" /\ args[2].t = "i" /\ args[3].t = "f"
        THEN Outcome(<< >>, << >>,
               << SetPadLightCall(AsUsize(args[1].i), MaskColor(args[2].i), args[3].f) >>)
        ELSE Nothing

\* the note-base branch taking a float argument as well
HandleNoteBaseAnyNumber(msg) ==
  LET args == msg.arguments
  IN  IF Len(args) = 1 /\ args[1].t = "i"
        THEN Outcome(<< >>, << >>, << SetMidiNoteBaseCall(AsU8(args[1].i)) >>)
      ELSE IF Len(args) = 1 /\ args[1].t = "f"
        THEN Outcome(<< >>, << >>,
               << SetMidiNoteBaseCall(AsU8(args[1].f.num \div args[1].f.den)) >>)
        ELSE Nothing

\* handle_osc_messge, the branch of a path starting with "/maschine/midi_note_base"
HandleNoteBase(msg) ==
  LET args == msg.arguments
  IN  IF Len(args) = 1 /\ args[1].t = "i"
        THEN Outcome(<< >>, << >>, << SetMidiNoteBaseCall(AsU8(args[1].i)) >>)
        ELSE Nothing

\* fn handle_osc_messge(&self, maschine, msg: &osc::Message)
handle_osc_messge(msg) ==
  IF StartsWith(msg.path, "/maschine/button") THEN HandleButtonLight(msg)
  ELSE IF StartsWith(msg.path, "/maschine/pad") THEN HandlePadLight(msg)
  ELSE IF StartsWith(msg.path, "/maschine/midi_note_base") THEN HandleNoteBase(msg)
  ELSE Nothing

\* recv_osc_msg unwrapping the results of recv_from and deserialize
recv_osc_msg_unwrapping(dgram) ==
  IF dgram.kind \in { "recv_err", "undecodable" } THEN Panic
  ELSE handle_osc_messge(dgram.msg)

\* fn recv_osc_msg(&self, maschine): recv_from, deserialize, handle_osc_messge.
\* dgram.kind is "recv_err" (recv_from failed), "undecodable" or "msg".
recv_osc_msg(dgram) ==
  IF dgram.kind = "recv_err" THEN Nothing
  ELSE IF dgram.kind = "undecodable" THEN Nothing
  ELSE handle_osc_messge(dgram.msg)

\* set_pad_light / set_button_light / set_midi_note_base: in-memory stores of the
\* device. button_light holds the buttons whose light has been set; the others
\* keep the light the device started with. A pad index outside the table is the
\* caller's responsibility: the store flags it and changes nothing.
DeviceCall(d, c) ==
  CASE c.op = "set_pad_light" ->
         IF c.idx \in PadIndices
           THEN [d EXCEPT !.pad[c.idx] = Light(c.color, c.brightness)]
           ELSE [d EXCEPT !.fault = TRUE]
    [] c.op = "set_button_light" ->
         [d EXCEPT !.button = [b \in DOMAIN d.button \cup { c.btn } |->
                                 IF b = c.btn THEN Light(c.color, c.brightness)
                                 ELSE d.button[b]]]
    [] c.op = "set_midi_note_base" ->
         [d EXCEPT !.base = c.base]

RECURSIVE DeviceCalls(_, _)
DeviceCalls(d, calls) ==
  IF calls = << >> THEN d ELSE DeviceCalls(DeviceCall(d, Head(calls)), Tail(calls))

\* The device after the handler's calls, from the current device state.
DeviceAfter(calls) ==
  DeviceCalls([base |-> midi_note_base, pad |-> pad_light, button |-> button_light,
               fault |-> FALSE], calls)

\* dev.write_lights(): the report carries the light table as it stands.
write_lights == << [pad |-> pad_light, button |-> button_light] >>

\* ------------------------------------------------------------------ events
NoMessage == OscMessage("", << >>)
Datagram(kind, msg) == [kind |-> kind, msg |-> msg]
NoDatagram == Datagram("none", NoMessage)

\* The step just taken: what was handled, and the note base it found.
Event(kind, idx, pressure, btn, byte, delta, dgram) ==
  [kind |-> kind, idx |-> idx, pressure |-> pressure, btn |-> btn, byte |-> byte,
   delta |-> delta, dgram |-> dgram, base |-> midi_note_base]
LoopStep(kind) == Event(kind, 0, F32Zero, "", 0, 0, NoDatagram)

\* Whether a datagram is the command /maschine/midi_note_base (int)
IsNoteBaseCmd(dgram) ==
  /\ dgram.kind = "msg"
  /\ dgram.msg.path = "/maschine/midi_note_base"
  /\ Len(dgram.msg.arguments) = 1
  /\ dgram.msg.arguments[1].t = "i"

\* Whether a datagram is the command /maschine/pad (int idx, int color, float brightness)
IsPadCmd(dgram) ==
  /\ dgram.kind = "msg"
  /\ dgram.msg.path = "/maschine/pad"
  /\ Len(dgram.msg.arguments) = 3
  /\ dgram.msg.arguments[1].t = "i"
  /\ dgram.msg.arguments[2].t = "i"
  /\ dgram.msg.arguments[3].t = "f"

HasCall(calls, op) == \E k \in 1 .. Len(calls) : calls[k].op = op
HasPadCall(calls, idx) ==
  \E k \in 1 .. Len(calls) : calls[k].op = "set_pad_light" /\ calls[k].idx = idx

\* The effect of one handler call with outcome o on the state. A pad index the
\* device does not have either panics in the device or is ignored by it
\* (index_panics): the device's code decides, and it is not in main.rs.
Handled(e, o, index_panics) ==
  LET d == DeviceAfter(o.calls)
  IN  /\ ev' = e
      /\ midi_out' = o.midi
      /\ osc_out' = o.osc
      /\ dev_calls' = o.calls
      /\ midi_note_base' = d.base
      /\ pad_light' = d.pad
      /\ button_light' = d.button
      /\ \E failed \in IF o.osc = << >> THEN { FALSE } ELSE BOOLEAN :
           /\ osc_failed' = failed
           /\ aborted' = \/ (IF failed THEN send_to_failed(o) ELSE o).panic
                         \/ (d.fault /\ index_panics)
      /\ n_events' = n_events + 1
      /\ osc_base_cmd' =
           IF e.kind = "osc" /\ IsNoteBaseCmd(e.dgram) /\ ~o.panic
             THEN << e.dgram.msg.arguments[1].i >>
           ELSE IF HasCall(o.calls, "set_midi_note_base") THEN << >>
           ELSE osc_base_cmd
      /\ osc_pad_cmd' =
           LET kept == { i \in DOMAIN osc_pad_cmd : ~HasPadCall(o.calls, i) }
           IN  IF e.kind = "osc" /\ IsPadCmd(e.dgram)
                    /\ e.dgram.msg.arguments[1].i \in PadIndices
                 THEN [i \in kept \cup { e.dgram.msg.arguments[1].i } |->
                         IF i = e.dgram.msg.arguments[1].i
                           THEN [color |-> e.dgram.msg.arguments[2].i,
                                 brightness |-> e.dgram.msg.arguments[3].f]
                           ELSE osc_pad_cmd[i]]
                 ELSE [i \in kept |-> osc_pad_cmd[i]]
      /\ note_on' =
           IF e.kind = "pad_pressed" /\ o.midi # << >>
             THEN [i \in DOMAIN note_on \cup { e.idx } |->
                     IF i = e.idx THEN o.midi[1].key ELSE note_on[i]]
           ELSE IF e.kind = "pad_released"
             THEN [i \in DOMAIN note_on \ { e.idx } |-> note_on[i]]
           ELSE note_on
      /\ UNCHANGED start_vars

\* A step of the loop that handles no event.
NoEvent(kind) ==
  /\ ev' = LoopStep(kind)
  /\ midi_out' = << >>
  /\ osc_out' = << >>
  /\ dev_calls' = << >>
  /\ osc_failed' = FALSE
  /\ UNCHANGED << aborted, n_events, osc_base_cmd, osc_pad_cmd, note_on, start_vars >>

\* ------------------------------------------------------------------- start
\* The handler constructed in main.
MainShape == Exponential(2, 5)
MainAftertouch == FALSE

\* The note base the device starts with (Mikro::new, not in main.rs).
InitialNoteBases == { 48 }

\* fn main, up to the call of ev_loop, started with the device path alone: the screen
\* cleared and drawn, the pads lit at the released brightness.
StartState ==
  /\ overflow_checks \in BOOLEAN
  /\ midi_note_base \in InitialNoteBases
  /\ pad_light = [i \in PadIndices |-> Light(pad_color, PAD_RELEASED_BRIGHTNESS)]
  /\ button_light = << >>
  /\ pad_pressure = << >>
  /\ hw_lights = << >>
  /\ aborted = FALSE
  /\ revents = [hid |-> FALSE, osc |-> FALSE]
  /\ elapsed = 0
  /\ osc_queue = << >>
  /\ n_events = 0
  /\ ev = LoopStep("start")
  /\ midi_out = << >>
  /\ osc_out = << >>
  /\ dev_calls = << >>
  /\ osc_base_cmd = << >>
  /\ osc_pad_cmd = << >>
  /\ note_on = << >>
  /\ osc_failed = FALSE
  /\ n_args = 2
  /\ screen_calls = << "clear_screen", "write_screen" >>
  /\ pads_lit = 16

Init ==
  /\ pressure_shape = MainShape
  /\ send_aftertouch = MainAftertouch
  /\ pc = "poll"
  /\ StartState

\* -------------------------------------------------- the inputs of the loop
Pressures == { F32(n, PressureSteps) : n \in 1 .. PressureSteps }
PadMessage(idx, color, num, den) ==
  OscMessage("/maschine/pad", << ArgI(idx), ArgI(color), ArgF(F32(num, den)) >>)
NoteBaseMessage(v) == OscMessage("/maschine/midi_note_base", << ArgI(v) >>)

LoopPads == { 0, 3 }
LoopPressures == { F32(1, PressureSteps), F32(PressureSteps, PressureSteps) }
LoopButtons == { "Play", "GroupC" }
LoopBytes == { 127 }
LoopDeltas == { -1 }
LoopDatagrams ==
  { Datagram("recv_err", NoMessage), Datagram("undecodable", NoMessage) }
  \cup { Datagram("msg", m) :
           m \in { PadMessage(3, 33488896, 1, 2),
                   NoteBaseMessage(36), NoteBaseMessage(250), NoteBaseMessage(300),
                   OscMessage("/maschine/button", << ArgI(1) >>) } }
\* the datagrams that reach the socket back to back
LoopBursts ==
  LET burst == { Datagram("undecodable", NoMessage),
                 Datagram("msg", PadMessage(3, 33488896, 1, 2)),
                 Datagram("msg", NoteBaseMessage(36)) }
  IN  { b \in { << d1, d2 >> : d1 \in burst, d2 \in burst } : b[1] # b[2] }
\* the datagrams that reach the socket while poll waits: none, one, or a burst of two
LoopArrivals ==
  { << >> } \cup { << d >> : d \in { a \in LoopDatagrams : a.kind # "recv_err" } }
    \cup LoopBursts

Min(a, b) == IF a <= b THEN a ELSE b
\* elapsed time is tracked up to this value
ElapsedCap == 2 * TimerIntervalMs
\* how long poll may block: ready at once, ready after 8 ms, or the timeout
PollWaits == { 0, PollTimeoutMs \div 2, PollTimeoutMs }

\* --------------------------------------------------------------- ev_loop
\* recv_from on a queue read without removing its head
DequeueNothing(queue) == queue
\* recv_from takes the oldest datagram off the socket's queue
Dequeue(queue) == Tail(queue)

\* the timer branch taken whatever the elapsed time
TimerExpiredAlways(e) == TRUE
\* now.elapsed().unwrap() >= timer_interval
TimerExpired(e) == e >= TimerIntervalMs

\* poll(&mut fds, 16).unwrap()
Poll ==
  /\ pc = "poll" /\ ~aborted
  /\ \E h \in BOOLEAN, arrivals \in LoopArrivals, dt \in PollWaits :
       LET queue == osc_queue \o arrivals
           o == queue # << >>
       IN  /\ h => n_events + Len(queue) < MaxEvents
           /\ arrivals # << >> => n_events + Len(queue) <= MaxEvents
           /\ (~h /\ ~o) => dt = PollTimeoutMs
           /\ osc_queue' = queue
           /\ revents' = [hid |-> h, osc |-> o]
           /\ elapsed' = Min(elapsed + dt, ElapsedCap)
  /\ pc' = "hid"
  /\ NoEvent("poll")
  /\ UNCHANGED << config_vars, device_vars >>

\* dev.readable(mhandler) is dispatching: the device can decode another event
Readable == pc = "hid" /\ ~aborted /\ revents.hid /\ n_events + Len(osc_queue) < MaxEvents

\* dev.readable(mhandler) decodes a pressure 0 -> p and calls pad_pressed
HidPadPressed ==
  /\ Readable
  /\ \E i \in LoopPads, p \in LoopPressures :
       /\ i \notin DOMAIN pad_pressure
       /\ Handled(Event("pad_pressed", i, p, "", 0, 0, NoDatagram), pad_pressed(i, p), FALSE)
       /\ pad_pressure' = [j \in DOMAIN pad_pressure \cup { i } |->
                             IF j = i THEN p.num ELSE pad_pressure[j]]
  /\ UNCHANGED << config_vars, loop_vars, hw_lights >>

\* dev.readable(mhandler) decodes a pressure p -> q, both non-zero, and calls pad_aftertouch
HidPadAftertouch ==
  /\ Readable
  /\ \E i \in LoopPads, p \in LoopPressures :
       /\ i \in DOMAIN pad_pressure /\ pad_pressure[i] # p.num
       /\ Handled(Event("pad_aftertouch", i, p, "", 0, 0, NoDatagram),
                  pad_aftertouch(i, p), FALSE)
       /\ pad_pressure' = [pad_pressure EXCEPT ![i] = p.num]
  /\ UNCHANGED << config_vars, loop_vars, hw_lights >>

\* dev.readable(mhandler) decodes a pressure p -> 0 and calls pad_released
HidPadReleased ==
  /\ Readable
  /\ \E i \in LoopPads :
       /\ i \in DOMAIN pad_pressure
       /\ Handled(Event("pad_released", i, F32Zero, "", 0, 0, NoDatagram),
                  pad_released(i), FALSE)
       /\ pad_pressure' = [j \in DOMAIN pad_pressure \ { i } |-> pad_pressure[j]]
  /\ UNCHANGED << config_vars, loop_vars, hw_lights >>

\* dev.readable(mhandler) decodes an encoder delta and calls encoder_step
HidEncoderStep ==
  /\ Readable
  /\ \E delta \in LoopDeltas :
       Handled(Event("encoder_step", 0, F32Zero, "", 0, delta, NoDatagram),
               encoder_step(0, delta), FALSE)
  /\ UNCHANGED << config_vars, loop_vars, pad_pressure, hw_lights >>

\* dev.readable(mhandler) decodes a button byte 0 -> v and calls button_down
HidButtonDown ==
  /\ Readable
  /\ \E btn \in LoopButtons, byte \in LoopBytes :
       Handled(Event("button_down", 0, F32Zero, btn, byte, 0, NoDatagram),
               button_down(btn, byte), FALSE)
  /\ UNCHANGED << config_vars, loop_vars, pad_pressure, hw_lights >>

\* dev.readable(mhandler) decodes a button byte v -> 0 and calls button_up
HidButtonUp ==
  /\ Readable
  /\ \E btn \in LoopButtons :
       Handled(Event("button_up", 0, F32Zero, btn, 0, 0, NoDatagram),
               button_up(btn, 0), FALSE)
  /\ UNCHANGED << config_vars, loop_vars, pad_pressure, hw_lights >>

\* `if fds[0].revents()...contains(POLLIN)` is over: dev.readable returned, or was not called
HidDone ==
  /\ pc = "hid" /\ ~aborted
  /\ pc' = "osc"
  /\ NoEvent("hid_done")
  /\ UNCHANGED << config_vars, device_vars, revents, elapsed, osc_queue >>

\* `if fds[1].revents()...contains(POLLIN) { mhandler.recv_osc_msg(dev) }`
\* recv_from either fails, leaving the queue as it is, or takes the datagram at its head
OscRecv ==
  /\ pc = "osc" /\ ~aborted /\ revents.osc
  /\ \E failed \in BOOLEAN, index_panics \in BOOLEAN :
       LET dgram == IF failed THEN Datagram("recv_err", NoMessage) ELSE Head(osc_queue)
       IN  /\ failed => n_events + Len(osc_queue) < MaxEvents
           /\ ~failed => osc_queue # << >>
           /\ osc_queue' = IF failed THEN osc_queue ELSE Dequeue(osc_queue)
           /\ Handled(Event("osc", 0, F32Zero, "", 0, 0, dgram), recv_osc_msg(dgram),
                      index_panics)
  /\ pc' = "timer"
  /\ UNCHANGED << config_vars, revents, elapsed, pad_pressure, hw_lights >>

\* the lights written from the OSC step
OscIdleFlushing ==
  /\ pc = "osc" /\ ~aborted /\ ~revents.osc
  /\ pc' = "timer"
  /\ hw_lights' = write_lights
  /\ NoEvent("osc_idle")
  /\ UNCHANGED << config_vars, midi_note_base, pad_light, button_light, pad_pressure,
                  revents, elapsed, osc_queue >>

\* the UDP socket is not readable
OscIdle ==
  /\ pc = "osc" /\ ~aborted /\ ~revents.osc
  /\ pc' = "timer"
  /\ NoEvent("osc_idle")
  /\ UNCHANGED << config_vars, device_vars, revents, elapsed, osc_queue >>

\* `if now.elapsed().unwrap() >= timer_interval { dev.write_lights(); now = SystemTime::now() }`
TimerFlush ==
  /\ pc = "timer" /\ ~aborted /\ TimerExpired(elapsed)
  /\ hw_lights' = write_lights
  /\ elapsed' = 0
  /\ pc' = "poll"
  /\ NoEvent("write_lights")
  /\ UNCHANGED << config_vars, midi_note_base, pad_light, button_light, pad_pressure,
                  revents, osc_queue >>

\* the timer has not expired
TimerIdle ==
  /\ pc = "timer" /\ ~aborted /\ ~TimerExpired(elapsed)
  /\ pc' = "poll"
  /\ NoEvent("timer_idle")
  /\ UNCHANGED << config_vars, device_vars, revents, elapsed, osc_queue >>

\* fn ev_loop: one step of `loop { ... }`
Next ==
  \/ Poll
  \/ HidPadPressed
  \/ HidPadAftertouch
  \/ HidPadReleased
  \/ HidEncoderStep
  \/ HidButtonDown
  \/ HidButtonUp
  \/ HidDone
  \/ OscRecv
  \/ OscIdle
  \/ TimerFlush
  \/ TimerIdle

Spec == Init /\ [][Next]_vars


\* poll returns after some time has passed on the clock that now.elapsed() reads
TimePasses == Poll /\ elapsed' > elapsed

\* The loop has no exit and no blocking call but poll, which returns within its
\* timeout: a step of the loop that can be taken is taken, and time does not stand
\* still over infinitely many iterations.
SpecLive == Spec /\ WF_vars(Next) /\ SF_vars(TimePasses)
\* ------------------------------------------------- the handler's contract
\* The handler called directly, outside the loop: a handler built with any shape
\* and aftertouch setting, the device as main leaves it or after one note-base
\* command, and then one call with inputs over their whole range.
CallBytes == { 0, 1, 255 }
CallDeltas == { -3, 1 }
CallEncoders == { 0, 1 }
SetupNoteBases == { 116, 240, 250, 300 }

\* the names osc_button_to_btn_map accepts
OscButtonNames == { n \in { btn_to_osc_button_map(b) : b \in MaschineButton } :
                      osc_button_to_btn_map(n) # None }
ButtonPaths ==
  { "/maschine/button/" \o n : n \in OscButtonNames }
  \cup { "/maschine/button/A1", "/maschine/button/bogus", "/maschine/button/",
         "/maschine/button", "/maschine/buttons/play", "/maschine/buttonXplay" }
ButtonArguments ==
  { << >>, << ArgI(1) >>, << ArgI(2) >>, << ArgF(F32(3, 2)) >>, << ArgF(F32(-1, 2)) >>,
    << ArgS >>, << ArgI(33489151), ArgF(F32(3, 2)) >>, << ArgI(-1), ArgF(F32(1, 2)) >>,
    << ArgF(F32(1, 2)), ArgF(F32(1, 2)) >>, << ArgI(1), ArgI(1) >>,
    << ArgI(1), ArgF(F32(1, 2)), ArgI(1) >> }
PadPaths == { "/maschine/pad", "/maschine/pads" }
PadArguments ==
  { << ArgI(idx), ArgI(color), ArgF(b) >> :
      idx \in -1 .. 16, color \in { 16711680, 33489151, -1 },
      b \in { F32(1, 2), F32(3, 2) } }
  \cup { << >>, << ArgI(3), ArgI(255) >>, << ArgI(3), ArgI(255), ArgI(1) >>,
         << ArgF(F32(3, 1)), ArgI(255), ArgF(F32(1, 2)) >>,
         << ArgI(3), ArgI(255), ArgF(F32(1, 2)), ArgI(0) >> }
NoteBasePaths == { "/maschine/midi_note_base" }
NoteBaseArguments ==
  { << ArgI(v) >> : v \in { -1, 0, 36, 127, 250, 256, 300 } }
  \cup { << >>, << ArgF(F32(36, 1)) >>, << ArgI(36), ArgI(1) >> }
OtherPaths == { "/foo/bar", "/maschine", "" }
OtherArguments == { << >>, << ArgI(36) >>, << ArgI(3), ArgI(255), ArgF(F32(1, 2)) >> }

CallDatagrams ==
  { Datagram("recv_err", NoMessage), Datagram("undecodable", NoMessage) }
  \cup { Datagram("msg", OscMessage(p, a)) : p \in ButtonPaths, a \in ButtonArguments }
  \cup { Datagram("msg", OscMessage(p, a)) : p \in PadPaths, a \in PadArguments }
  \cup { Datagram("msg", OscMessage(p, a)) : p \in NoteBasePaths, a \in NoteBaseArguments }
  \cup { Datagram("msg", OscMessage(p, a)) : p \in OtherPaths, a \in OtherArguments }

InitCall ==
  /\ pressure_shape \in Shapes
  /\ send_aftertouch \in BOOLEAN
  /\ pc = "call"
  /\ StartState

Callable == pc = "call" /\ ~aborted
Called ==
  /\ pc' = "called"
  /\ UNCHANGED << config_vars, revents, elapsed, osc_queue, pad_pressure, hw_lights >>

\* a /maschine/midi_note_base command handled before the call
SetNoteBase ==
  /\ Callable /\ n_events = 0
  /\ \E v \in SetupNoteBases :
       Handled(Event("osc", 0, F32Zero, "", 0, 0, Datagram("msg", NoteBaseMessage(v))),
               recv_osc_msg(Datagram("msg", NoteBaseMessage(v))), FALSE)
  /\ UNCHANGED << config_vars, loop_vars, pad_pressure, hw_lights >>

CallPadPressed ==
  /\ Callable
  /\ \E i \in PadIndices, p \in Pressures :
       Handled(Event("pad_pressed", i, p, "", 0, 0, NoDatagram), pad_pressed(i, p), FALSE)
  /\ Called

CallPadAftertouch ==
  /\ Callable
  /\ \E i \in PadIndices, p \in Pressures :
       Handled(Event("pad_aftertouch", i, p, "", 0, 0, NoDatagram),
               pad_aftertouch(i, p), FALSE)
  /\ Called

CallPadReleased ==
  /\ Callable
  /\ \E i \in PadIndices :
       Handled(Event("pad_released", i, F32Zero, "", 0, 0, NoDatagram),
               pad_released(i), FALSE)
  /\ Called

CallEncoderStep ==
  /\ Callable
  /\ \E index \in CallEncoders, delta \in CallDeltas :
       Handled(Event("encoder_step", index, F32Zero, "", 0, delta, NoDatagram),
               encoder_step(index, delta), FALSE)
  /\ Called

CallButtonDown ==
  /\ Callable
  /\ \E btn \in MaschineButton, byte \in CallBytes :
       Handled(Event("button_down", 0, F32Zero, btn, byte, 0, NoDatagram),
               button_down(btn, byte), FALSE)
  /\ Called

CallButtonUp ==
  /\ Callable
  /\ \E btn \in MaschineButton, byte \in CallBytes :
       Handled(Event("button_up", 0, F32Zero, btn, byte, 0, NoDatagram),
               button_up(btn, byte), FALSE)
  /\ Called

CallRecvOsc ==
  /\ Callable
  /\ \E dgram \in CallDatagrams, index_panics \in BOOLEAN :
       Handled(Event("osc", 0, F32Zero, "", 0, 0, dgram), recv_osc_msg(dgram), index_panics)
  /\ Called

NextCall ==
  \/ SetNoteBase
  \/ CallPadPressed
  \/ CallPadAftertouch
  \/ CallPadReleased
  \/ CallEncoderStep
  \/ CallButtonDown
  \/ CallButtonUp
  \/ CallRecvOsc

SpecCall == InitCall /\ [][NextCall]_vars


\* ------------------------------------------------------------------ fn main
\* The program started with any command line: args.len() counts the program name.
MainArgCounts == 1 .. 4

\* The light table of a device just constructed (Mikro::new, not in main.rs).
DeviceInitialLight == Light(0, F32Zero)

InitMain ==
  /\ pressure_shape = MainShape
  /\ send_aftertouch = MainAftertouch
  /\ overflow_checks \in BOOLEAN
  /\ n_args \in MainArgCounts
  /\ pc = "main"
  /\ screen_calls = << >>
  /\ pads_lit = 0
  /\ midi_note_base \in InitialNoteBases
  /\ pad_light = [i \in PadIndices |-> DeviceInitialLight]
  /\ button_light = << >>
  /\ pad_pressure = << >>
  /\ hw_lights = << >>
  /\ aborted = FALSE
  /\ revents = [hid |-> FALSE, osc |-> FALSE]
  /\ elapsed = 0
  /\ osc_queue = << >>
  /\ n_events = 0
  /\ ev = LoopStep("start")
  /\ midi_out = << >>
  /\ osc_out = << >>
  /\ dev_calls = << >>
  /\ osc_base_cmd = << >>
  /\ osc_pad_cmd = << >>
  /\ note_on = << >>
  /\ osc_failed = FALSE

\* A step of main that calls no handler and none of the device's light setters.
MainStep(next_pc) ==
  /\ ~aborted
  /\ pc' = next_pc
  /\ ev' = LoopStep("main")
  /\ midi_out' = << >> /\ osc_out' = << >> /\ dev_calls' = << >>
  /\ osc_failed' = FALSE
  /\ UNCHANGED << config_vars, device_vars, revents, elapsed, osc_queue, n_events,
                  osc_base_cmd, osc_pad_cmd, note_on, n_args, pads_lit >>

\* `if args.len() < 2 { usage(&args[0]); panic!("missing hidraw device path") }`
MainUsage ==
  /\ pc = "main" /\ n_args < 2
  /\ MainStep("main")
  /\ aborted' = TRUE
  /\ UNCHANGED screen_calls

\* the device opened, the socket bound, the sequencer ports created, the handler built
MainSetup ==
  /\ pc = "main" /\ ~(n_args < 2)
  /\ MainStep("clear_screen")
  /\ UNCHANGED << aborted, screen_calls >>

\* fcntl::open fails, or one of the unwraps of bind, open and create_port panics
MainSetupFails ==
  /\ pc = "main" /\ ~(n_args < 2)
  /\ MainStep("main")
  /\ aborted' = TRUE
  /\ UNCHANGED screen_calls

\* dev.clear_screen()
MainClearScreen ==
  /\ pc = "clear_screen"
  /\ MainStep("write_screen")
  /\ screen_calls' = Append(screen_calls, "clear_screen")
  /\ UNCHANGED aborted

\* `if args.len() < 3 { dev.write_screen() }`, taken
MainWriteScreen ==
  /\ pc = "write_screen" /\ n_args < 3
  /\ MainStep("pads")
  /\ screen_calls' = Append(screen_calls, "write_screen")
  /\ UNCHANGED aborted

\* `if args.len() < 3 { dev.write_screen() }`, not taken
MainSkipScreen ==
  /\ pc = "write_screen" /\ ~(n_args < 3)
  /\ MainStep("pads")
  /\ UNCHANGED << aborted, screen_calls >>

\* `for i in 0..16 { dev.set_pad_light(i, handler.pad_color(), PAD_RELEASED_BRIGHTNESS) }`
MainLightPad ==
  /\ pc = "pads" /\ ~aborted /\ pads_lit < Cardinality(PadIndices)
  /\ LET calls == << SetPadLightCall(pads_lit, pad_color, PAD_RELEASED_BRIGHTNESS) >>
     IN  /\ dev_calls' = calls
         /\ pad_light' = DeviceAfter(calls).pad
  /\ pads_lit' = pads_lit + 1
  /\ ev' = LoopStep("main")
  /\ midi_out' = << >> /\ osc_out' = << >>
  /\ osc_failed' = FALSE
  /\ UNCHANGED << config_vars, midi_note_base, button_light, pad_pressure, hw_lights,
                  loop_vars, aborted, n_events, osc_base_cmd, osc_pad_cmd, note_on,
                  n_args, screen_calls >>

\* ev_loop(&mut dev, &mut handler)
MainEnterLoop ==
  /\ pc = "pads" /\ pads_lit = Cardinality(PadIndices)
  /\ MainStep("poll")
  /\ UNCHANGED << aborted, screen_calls >>

NextMain ==
  \/ MainUsage
  \/ MainSetup
  \/ MainSetupFails
  \/ MainClearScreen
  \/ MainWriteScreen
  \/ MainSkipScreen
  \/ MainLightPad
  \/ MainEnterLoop

SpecMain == InitMain /\ [][NextMain]_vars
\* ------------------------------------------------------------- the claims
IsButtonEvent == ev.kind \in { "button_down", "button_up" }
PadNote(base, idx) == base + PAD_NOTE_MAP[idx + 1]

\* C1: pad_pressed(i, p), p > 0, with any note base b, emits exactly one Note On on
\* channel 1 with note b + PAD_NOTE_MAP[i] and velocity shaper(p), and sets the light
\* of pad i, and of no other pad, to the base colour.
C1_PadPressedNoteOn ==
  ev.kind = "pad_pressed" =>
    /\ ~aborted
    /\ midi_out = << MidiMessage("NoteOn", PadNote(ev.base, ev.idx),
                                 pressure_to_vel(ev.pressure)) >>
    /\ Len(dev_calls) = 1
    /\ dev_calls[1].op = "set_pad_light"
    /\ dev_calls[1].idx = ev.idx
    /\ dev_calls[1].color = pad_color
    /\ pad_light[ev.idx].color = pad_color

\* C2: pad_released(i), with any note base b, emits exactly one Note Off on channel 1
\* with note b + PAD_NOTE_MAP[i] and velocity 0, and sets pad i's light to the base
\* colour at the released brightness 0.015.
C2_PadReleasedNoteOff ==
  ev.kind = "pad_released" =>
    /\ ~aborted
    /\ midi_out = << MidiMessage("NoteOff", PadNote(ev.base, ev.idx), 0) >>
    /\ dev_calls = << SetPadLightCall(ev.idx, pad_color, F32(15, 1000)) >>
    /\ pad_light[ev.idx] = Light(pad_color, F32(15, 1000))

\* C3: once /maschine/midi_note_base (int v) is handled the note base is v, and every
\* pad_pressed(i) before a further note-base change emits a Note On with note
\* v + PAD_NOTE_MAP[i].
C3_NoteBaseCommand ==
  /\ (ev.kind = "osc" /\ IsNoteBaseCmd(ev.dgram)) =>
       (~aborted /\ midi_note_base = ev.dgram.msg.arguments[1].i)
  /\ (ev.kind = "pad_pressed" /\ osc_base_cmd # << >>) =>
       /\ ~aborted
       /\ Len(midi_out) = 1
       /\ midi_out[1].type = "NoteOn"
       /\ midi_out[1].key = PadNote(osc_base_cmd[1], ev.idx)

\* C4: button_down of the k-th group-select button (group_a..group_h, k = 0..7) sets
\* the note base to 24 + 12k and emits no MIDI message, whatever the raw byte.
GroupButtons ==
  << "GroupA", "GroupB", "GroupC", "GroupD", "GroupE", "GroupF", "GroupG", "GroupH" >>
C4_GroupSelectSetsBase ==
  \A k \in 0 .. 7 :
    (ev.kind = "button_down" /\ ev.btn = GroupButtons[k + 1]) =>
      /\ midi_note_base = 24 + 12 * k
      /\ midi_out = << >>
      /\ ~aborted
C4_Witness ==
  /\ ev.kind = "button_down" /\ ev.btn = "GroupC" /\ ev.byte = 255
  /\ ev.base = 250 /\ midi_note_base = 48

\* C5: every button_down and button_up, for every identifier b and raw byte v, hands
\* exactly one OSC datagram to the socket, addressed to /<OSC name of b> with the
\* single float argument v, whether or not MIDI or a note-base change resulted.
C5_ButtonOscMirror ==
  IsButtonEvent =>
    osc_out = << OscMessage("/" \o btn_to_osc_button_map(ev.btn),
                            << ArgF(F32(ev.byte, 1)) >>) >>
C5_Witness ==
  /\ ev.kind = "button_up" /\ ev.btn = "A8" /\ ev.byte = 255
  /\ midi_out # << >>
  /\ osc_out = << OscMessage("/A8", << ArgF(F32(255, 1)) >>) >>

\* C6: each of the 39 named control buttons emits exactly one RPN7 message on
\* channel 1 carrying the raw byte v when v > 0 and no MIDI message when v = 0; their
\* controller indices are pairwise distinct and are exactly 1..39.
NamedControls ==
  { "play", "stop", "rec", "grid", "step_left", "step_right", "restart", "browse",
    "sampling", "note_repeat", "control", "nav", "nav_left", "nav_right", "main",
    "scene", "pattern", "pad_mode", "view", "duplicate", "select", "solo", "step",
    "mute", "navigate", "tempo", "enter", "auto", "all", "f1", "f2", "f3", "f4", "f5",
    "f6", "f7", "f8", "page_right", "page_left" }
NamedControlButtons == { b \in MaschineButton : btn_to_osc_button_map(b) \in NamedControls }
C6_NamedControlsRpn ==
  /\ Cardinality(NamedControls) = 39
  /\ Cardinality(NamedControlButtons) = 39
  /\ { DownController(n) : n \in NamedControls } = 1 .. 39
  /\ (IsButtonEvent /\ ev.btn \in NamedControlButtons) =>
       IF ev.byte > 0
         THEN /\ Len(midi_out) = 1
              /\ midi_out[1].type = "RPN7"
              /\ midi_out[1].ch = 1
              /\ midi_out[1].value = ev.byte
              /\ midi_out[1].key = DownController(btn_to_osc_button_map(ev.btn))
         ELSE midi_out = << >>
C6_Witness ==
  /\ ev.kind = "button_up" /\ ev.btn = "Pageleft" /\ ev.byte = 0 /\ midi_out = << >>
  /\ osc_out # << >>

C8_ShaperRoundsToNearest ==
  (ev.kind = "pad_pressed" /\ ~aborted) =>
    /\ Len(midi_out) = 1
    /\ midi_out[1].value = ShapedVelRounded(pressure_shape, ev.pressure)

\* C8 as amended: the shaper maps p to the integer part (the fraction dropped) of
\* p * 127 (Linear), of p^k * 127 (Exponential(k)) and of c * 127 (Constant(c)).
C8_ShaperTruncates ==
  (ev.kind = "pad_pressed" /\ ~aborted) =>
    /\ Len(midi_out) = 1
    /\ LET v == midi_out[1].value
           p == ev.pressure
           s == pressure_shape
       IN  CASE s.shape = "Linear" -> v = (VelScale * p.num) \div p.den
             [] s.shape = "Constant" -> v = (VelScale * s.num) \div s.den
             [] s.shape = "Exponential" ->
                  /\ VelAtMostPow(v, p.num, p.den, s.num, s.den)
                  /\ ~VelAtMostPow(v + 1, p.num, p.den, s.num, s.den)
C8_Witness ==
  /\ ev.kind = "pad_pressed" /\ ~aborted
  /\ pressure_shape = Linear
  /\ 2 * ev.pressure.num = ev.pressure.den
  /\ midi_out[1].value = 63

\* C9: /maschine/pad (int idx, int color, float brightness), idx in 0..15, sets pad
\* idx's light to (color masked to 24 bits, brightness) and leaves every other pad's
\* and button's light unchanged; the next write_lights carries that state for pad
\* idx unless a later event overwrote it.
C9_PadCommand ==
  [][ /\ (ev'.kind = "osc" /\ IsPadCmd(ev'.dgram)
            /\ ev'.dgram.msg.arguments[1].i \in PadIndices) =>
           LET a == ev'.dgram.msg.arguments
           IN  /\ pad_light' = [pad_light EXCEPT
                                  ![a[1].i] = Light(a[2].i % 16777216, a[3].f)]
               /\ button_light' = button_light
               /\ ~aborted'
      /\ ev'.kind = "write_lights" =>
           \A i \in DOMAIN osc_pad_cmd :
             hw_lights'[1].pad[i] =
               Light(osc_pad_cmd[i].color % 16777216, osc_pad_cmd[i].brightness)
    ]_vars
C9_Witness ==
  /\ ev.kind = "write_lights"
  /\ 3 \in DOMAIN osc_pad_cmd
  /\ hw_lights[1].pad[3] = Light(16711680, F32(1, 2))

\* C10: /maschine/button/<name> for a recognised name sets that button's light to
\* white (0xFFFFFF) at brightness x with one argument x (an int, converted, or a
\* float), and to (color AND 0xFFFFFF, brightness) with two arguments (int, float);
\* the brightness is stored as given, also outside [0, 1].
C10_ButtonCommand ==
  \A n \in OscButtonNames :
    (ev.kind = "osc" /\ ev.dgram.kind = "msg"
       /\ ev.dgram.msg.path = "/maschine/button/" \o n) =>
      LET a == ev.dgram.msg.arguments
          btn == osc_button_to_btn_map(n)[1]
          Lit(color, b) == btn \in DOMAIN button_light /\ button_light[btn] = Light(color, b)
      IN  /\ (Len(a) = 1 /\ a[1].t = "i") => Lit(16777215, F32(a[1].i, 1))
          /\ (Len(a) = 1 /\ a[1].t = "f") => Lit(16777215, a[1].f)
          /\ (Len(a) = 2 /\ a[1].t = "i" /\ a[2].t = "f") => Lit(a[1].i % 16777216, a[2].f)
          /\ ~aborted
C10_Witness ==
  /\ ev.kind = "osc" /\ ev.dgram.kind = "msg"
  /\ ev.dgram.msg.path = "/maschine/button/stop"
  /\ "Erase" \in DOMAIN button_light
  /\ button_light["Erase"] = Light(16711935, F32(3, 2))


\* C11: an inbound OSC message whose path starts with none of /maschine/button,
\* /maschine/pad, /maschine/midi_note_base, or that names an unknown button, or has a
\* wrong argument count or type for its path, changes no light and not the note base
\* and emits no MIDI message and no outbound OSC datagram.
UnknownPath(msg) ==
  /\ ~StartsWith(msg.path, "/maschine/button")
  /\ ~StartsWith(msg.path, "/maschine/pad")
  /\ ~StartsWith(msg.path, "/maschine/midi_note_base")
UnknownButton(msg) ==
  /\ StartsWith(msg.path, "/maschine/button")
  /\ \/ Len(msg.path) < 17
     \/ SubSeq(msg.path, 18, Len(msg.path)) \notin OscButtonNames
WrongArguments(msg) ==
  LET a == msg.arguments
  IN  \/ /\ StartsWith(msg.path, "/maschine/button")
         /\ ~(Len(a) = 1 /\ a[1].t \in { "i", "f" })
         /\ ~(Len(a) = 2 /\ a[1].t = "i" /\ a[2].t = "f")
      \/ /\ StartsWith(msg.path, "/maschine/pad")
         /\ ~(Len(a) = 3 /\ a[1].t = "i" /\ a[2].t = "i" /\ a[3].t = "f")
      \/ /\ StartsWith(msg.path, "/maschine/midi_note_base")
         /\ ~(Len(a) = 1 /\ a[1].t = "i")
C11_IgnoredOscChangesNothing ==
  [][ (/\ ev'.kind = "osc" /\ ev'.dgram.kind = "msg"
       /\ \/ UnknownPath(ev'.dgram.msg)
          \/ UnknownButton(ev'.dgram.msg)
          \/ WrongArguments(ev'.dgram.msg)) =>
        /\ device_vars' = device_vars
        /\ dev_calls' = << >>
        /\ midi_out' = << >>
        /\ osc_out' = << >>
    ]_vars
C11_Witness ==
  /\ ev.kind = "osc" /\ ev.dgram.kind = "msg"
  /\ ev.dgram.msg = OscMessage("/maschine/midi_note_base", << ArgF(F32(36, 1)) >>)
  /\ n_events = 2 /\ midi_note_base = 116

\* C12: for every decoded inbound OSC message, whatever its path (also exactly
\* "/maschine/button", or shorter than 17 characters past the prefix) and arguments,
\* handle_osc_messge returns normally and the loop proceeds to its next step; no
\* inbound message aborts the process.
C12_OscNeverAborts ==
  (ev.kind = "osc" /\ ev.dgram.kind = "msg") => (~aborted /\ pc = "timer")

\* C13: when recv_from fails or the bytes do not decode, recv_osc_msg dispatches
\* nothing, changes no light and not the note base, and returns, so that the same
\* iteration continues to the flush check and the loop goes on.
C13_BadDatagramDropped ==
  [][ (ev'.kind = "osc" /\ ev'.dgram.kind \in { "recv_err", "undecodable" }) =>
        /\ dev_calls' = << >> /\ midi_out' = << >> /\ osc_out' = << >>
        /\ device_vars' = device_vars
        /\ ~aborted'
        /\ pc = "osc" /\ pc' = "timer"
    ]_vars
C13_Witness ==
  /\ ev.kind = "osc" /\ ev.dgram.kind = "undecodable"
  /\ pc = "timer" /\ ~aborted
  /\ osc_queue # << >>

\* C14: light state is written to the device only by the loop's timer branch: no
\* handler calls write_lights, and within an iteration write_lights runs only after
\* the HID step and the OSC step have both completed.
HandlerKinds ==
  { "pad_pressed", "pad_aftertouch", "pad_released", "encoder_step", "button_down",
    "button_up", "osc" }
C14_FlushOnlyInTimerBranch ==
  [][ /\ (hw_lights' # hw_lights \/ ev'.kind = "write_lights") =>
           (pc = "timer" /\ pc' = "poll" /\ ev'.kind = "write_lights")
      /\ ev'.kind \in HandlerKinds =>
           (hw_lights' = hw_lights /\ pc \in { "hid", "osc" })
      /\ (pc' = "timer" /\ pc # "timer") => pc = "osc"
      /\ (pc' = "osc" /\ pc # "osc") => pc = "hid"
      /\ (pc' = "hid" /\ pc # "hid") => pc = "poll"
    ]_vars
C14_Witness ==
  /\ ev.kind = "write_lights" /\ pc = "poll"
  /\ hw_lights # << >>
  /\ hw_lights[1].pad[0].brightness = Sqrt(F32(1, PressureSteps))

\* C15: in every iteration write_lights is invoked if and only if at least 16 ms
\* have elapsed since the stored timestamp, which is then reset; so two consecutive
\* flushes, and loop start and the first flush, are at least 16 ms apart, and at
\* most one flush happens per iteration.
C15_FlushEverySixteenMs ==
  [][ /\ pc = "timer" => (ev'.kind = "write_lights" <=> elapsed >= 16)
      /\ ev'.kind = "write_lights" =>
           (pc = "timer" /\ elapsed >= 16 /\ elapsed' = 0 /\ pc' = "poll")
      /\ elapsed' < elapsed => ev'.kind = "write_lights"
    ]_vars
C15_Witness ==
  /\ ev.kind = "timer_idle" /\ elapsed = 8
  /\ hw_lights # << >>

\* C16: absent an I/O failure the event loop never exits and never blocks longer than
\* the poll timeout, so as time advances write_lights is invoked infinitely often and
\* every change of light state is eventually followed by a flush.
LightMutated ==
  \E k \in 1 .. Len(dev_calls) : dev_calls[k].op \in { "set_pad_light", "set_button_light" }
C16_FlushForever ==
  /\ []<>(ev.kind = "write_lights")
  /\ (LightMutated ~> (ev.kind = "write_lights"))

\* C17: in each iteration the HID step runs before the OSC step, and the OSC step
\* receives and dispatches at most one datagram; inbound datagrams are dispatched in
\* the order they arrived, none skipped and none handled twice.
IsPrefix(s, t) == Len(s) <= Len(t) /\ SubSeq(t, 1, Len(s)) = s
C17_OscInArrivalOrder ==
  [][ /\ ev'.kind \in HandlerKinds \ { "osc" } => (pc = "hid" /\ pc' = "hid")
      /\ (pc' = "osc" /\ pc # "osc") => pc = "hid"
      /\ ev'.kind = "osc" =>
           /\ pc = "osc" /\ pc' = "timer"
           /\ IF ev'.dgram.kind = "recv_err"
                THEN osc_queue' = osc_queue
                ELSE /\ osc_queue # << >>
                     /\ ev'.dgram = Head(osc_queue)
                     /\ osc_queue' = Tail(osc_queue)
      /\ ev'.kind = "poll" => IsPrefix(osc_queue, osc_queue')
      /\ ev'.kind \notin { "osc", "poll" } => osc_queue' = osc_queue
    ]_vars
C17_Witness ==
  /\ ev.kind = "osc"
  /\ ev.dgram = Datagram("msg", PadMessage(3, 33488896, 1, 2))
  /\ osc_queue = << Datagram("msg", NoteBaseMessage(36)) >>
  /\ 3 \in DOMAIN osc_pad_cmd /\ midi_note_base = 48

\* C18: encoder_step(index, delta) emits exactly one outbound OSC datagram at
\* /maschine/encoder with the single int argument delta, for any index and signed
\* delta, emits no MIDI message and leaves the note base and all lights unchanged.
C18_EncoderStep ==
  [][ ev'.kind = "encoder_step" =>
        /\ osc_out' = << [path |-> "/maschine/encoder",
                          arguments |-> << [t |-> "i", i |-> ev'.delta, f |-> F32Zero] >>] >>
        /\ midi_out' = << >>
        /\ device_vars' = device_vars
        /\ ~aborted'
    ]_vars
C18_Witness ==
  /\ ev.kind = "encoder_step" /\ ev.idx = 1 /\ ev.delta = -3
  /\ osc_out = << OscMessage("/maschine/encoder", << ArgI(-3) >>) >>
  /\ midi_note_base = 250

\* C19: btn_to_osc_button_map is total and injective: every identifier has a name
\* and no two identifiers share one, so the outbound address /<name> identifies the
\* pressed button uniquely.
C19_OscNameInjective ==
  IsButtonEvent =>
    /\ Len(osc_out) = 1
    /\ \A b \in MaschineButton :
         osc_out[1].path = "/" \o btn_to_osc_button_map(b) => b = ev.btn

\* C20: for every button identifier b, osc_button_to_btn_map(btn_to_osc_button_map(b))
\* returns b: the canonical OSC name of every button is accepted on the inbound
\* /maschine/button/<name> path and resolves back to that button.
C20_NameRoundTrip ==
  IsButtonEvent =>
    osc_button_to_btn_map(btn_to_osc_button_map(ev.btn)) = Some(ev.btn)

\* C21: the note base changes only on button_down of group_a..group_h or on an
\* inbound /maschine/midi_note_base command; every other handler event, button_up
\* included, leaves it exactly as it was.
C21_NoteBaseFrame ==
  [][ midi_note_base' # midi_note_base =>
        \/ ev'.kind = "button_down" /\ \E k \in 1 .. 8 : ev'.btn = GroupButtons[k]
        \/ ev'.kind = "osc" /\ IsNoteBaseCmd(ev'.dgram)
    ]_vars

\* C23: at startup, before the event loop is entered, all 16 pad lights are set to
\* the base colour at the released brightness 0.015; write_screen happens exactly
\* once when only the device path is given and not at all when a second argument is
\* given, in which case the display is not cleared either.
CallsOf(name) == { k \in 1 .. Len(screen_calls) : screen_calls[k] = name }
C23_Startup ==
  pc = "poll" =>
    /\ \A i \in 0 .. 15 : pad_light[i] = Light(pad_color, F32(15, 1000))
    /\ n_args = 2 => Cardinality(CallsOf("write_screen")) = 1
    /\ n_args > 2 => (CallsOf("write_screen") = { } /\ CallsOf("clear_screen") = { })

\* C22 (as amended): two pieces of device state are written from both entry points,
\* the light-state table and the MIDI note base. The hardware callbacks call only
\* set_pad_light and set_midi_note_base, the latter from the button callbacks alone;
\* the inbound OSC handler calls only set_pad_light, set_button_light and
\* set_midi_note_base; so button lights are written from inbound OSC only.
HardwareKinds == HandlerKinds \ { "osc" }
CallOps(calls) == { calls[k].op : k \in 1 .. Len(calls) }
C22_TwoSharedStates ==
  /\ ev.kind \in { "pad_pressed", "pad_aftertouch", "pad_released" } =>
       CallOps(dev_calls) \subseteq { "set_pad_light" }
  /\ ev.kind = "encoder_step" => dev_calls = << >>
  /\ ev.kind \in { "button_down", "button_up" } =>
       CallOps(dev_calls) \subseteq { "set_midi_note_base" }
  /\ ev.kind = "osc" =>
       CallOps(dev_calls) \subseteq { "set_pad_light", "set_button_light", "set_midi_note_base" }
  /\ ev.kind \notin HandlerKinds => dev_calls = << >>
\* a group button writes the note base that an inbound command wrote before it
C22_Witness ==
  /\ ev.kind \in { "button_down", "button_up" }
  /\ HasCall(dev_calls, "set_midi_note_base")
  /\ ev.base = 116
  /\ midi_note_base # 116
\* C22 as stated: the note base is written from at most one of the two entry points
\* (a note base written by the inbound OSC handler is not written by the hardware
\* callback that follows)
C22_NoteBaseFromOneEntryPoint ==
  [][ (ev.kind = "osc" /\ HasCall(dev_calls, "set_midi_note_base")) =>
        ~(ev'.kind \in HardwareKinds /\ HasCall(dev_calls', "set_midi_note_base"))
    ]_vars

\* C24: no stuck notes. Over any interleaving of pad, button and OSC events, the
\* Note Off emitted when pad i is released carries the same note number as the
\* Note On emitted when that pad was pressed, also when the note base was changed
\* while the pad was held.
C24_NoStuckNotes ==
  [][ (ev'.kind = "pad_released" /\ ev'.idx \in DOMAIN note_on /\ midi_out' # << >>) =>
        midi_out'[1].key = note_on[ev'.idx]
    ]_vars

\* C25: after any sequence of group-select presses and /maschine/midi_note_base
\* commands, every note number computed for a pad event, note base +
\* PAD_NOTE_MAP[i], is computed without 8-bit overflow and lies in 0..127, and every
\* controller value sent for a button lies in 0..127.
C25_SevenBitValues ==
  /\ ev.kind \in { "pad_pressed", "pad_aftertouch", "pad_released" } =>
       /\ ev.base + PAD_NOTE_MAP[ev.idx + 1] < U8Modulus
       /\ ~aborted
       /\ \A k \in 1 .. Len(midi_out) : midi_out[k].key \in 0 .. 127
  /\ ev.kind \in { "button_down", "button_up" } =>
       \A k \in 1 .. Len(midi_out) : midi_out[k].value \in 0 .. 127

\* C26: the handler never calls set_pad_light with a pad index outside 0..15; an
\* inbound /maschine/pad message whose pad argument is negative or greater than 15
\* causes no set_pad_light call with that index.
C26_PadIndexInRange ==
  \A k \in 1 .. Len(dev_calls) :
    dev_calls[k].op = "set_pad_light" => dev_calls[k].idx \in PadIndices

\* C27: the letter-grid buttons that have a controller mapping emit one controller
\* message with an index in 40..48 on every button event, button_up with raw byte 0
\* included, and the buttons of one group share one index (group k has 39 + k);
\* every other letter-grid button and every R button emits no MIDI message.
GridLetters ==
  { "A", "B", "C", "D", "E", "FF", "G", "H", "I", "J", "K", "L", "M", "N", "O", "P", "R" }
GridDigits == { "1", "2", "3", "4", "5", "6", "7", "8" }
LetterGridButtons == { l \o d : l \in GridLetters, d \in GridDigits }
GridGroups ==
  << { "A8" },
     { "B5", "B6", "B7", "B8", "C8" },
     { "D5", "D6", "D7", "D8", "E8" },
     { "FF5", "FF6", "FF7", "FF8", "G8" },
     { "H5", "H6", "H7", "H8", "I8" },
     { "J5", "J6", "J7", "J8", "K8" },
     { "L5", "L6", "L7", "L8", "M8" },
     { "N5", "N6", "N7", "N8", "O8" },
     { "P5", "P6" } >>
C27_LetterGridControllers ==
  (ev.kind \in { "button_down", "button_up" } /\ ev.btn \in LetterGridButtons) =>
    /\ \A k \in 1 .. 9 :
         ev.btn \in GridGroups[k] =>
           /\ Len(midi_out) = 1
           /\ midi_out[1].type = "RPN7"
           /\ midi_out[1].key = 39 + k
           /\ midi_out[1].key \in 40 .. 48
    /\ (\A k \in 1 .. 9 : ev.btn \notin GridGroups[k]) => midi_out = << >>
C27_Witness ==
  /\ ev.kind = "button_up" /\ ev.byte = 0 /\ ev.btn = "FF7"
  /\ Len(midi_out) = 1 /\ midi_out[1].key = 43
  /\ LetterGridButtons \subseteq MaschineButton
  /\ Cardinality(LetterGridButtons) = 136

\* C28: a failure to send an outbound OSC datagram (button mirror or encoder message)
\* is logged and dropped: the process does not abort, the datagram is handed to the
\* socket once and not again, and the MIDI message and the note-base change made for
\* the same event stay made.
C28_FailedSendDropped ==
  osc_failed =>
    /\ ~aborted
    /\ Len(osc_out) = 1
    /\ ev.kind \in { "button_down", "button_up", "encoder_step" }
    /\ ev.kind \in { "button_down", "button_up" } =>
         /\ midi_out = ButtonMidi(btn_to_osc_button_map(ev.btn), ev.byte)
         /\ btn_to_osc_button_map(ev.btn) \in GroupNames =>
              midi_note_base = GroupNoteBase(btn_to_osc_button_map(ev.btn))
    /\ osc_queue = << >>
C28_Witness ==
  /\ osc_failed /\ ~aborted
  /\ ev.kind = "button_down" /\ ev.btn = "GroupA" /\ ev.base = 116
  /\ midi_note_base = 24

\* C29: handling an inbound OSC message never produces outbound traffic: for every
\* inbound message, accepted or ignored, no MIDI message and no outbound OSC
\* datagram is emitted.
C29_InboundOscSilent ==
  ev.kind = "osc" => (midi_out = << >> /\ osc_out = << >>)
C29_Witness ==
  /\ ev.kind = "osc" /\ IsPadCmd(ev.dgram)
  /\ HasCall(dev_calls, "set_pad_light")
  /\ midi_out = << >> /\ osc_out = << >>

\* C30: button events never change light state: button_down and button_up for any
\* identifier leave every pad light and every button light unchanged, so a button's
\* light changes only in the handling of an inbound /maschine/button command.
C30_ButtonsLeaveLights ==
  [][ /\ ev'.kind \in { "button_down", "button_up" } =>
           (pad_light' = pad_light /\ button_light' = button_light)
      /\ button_light' # button_light =>
           (ev'.kind = "osc" /\ StartsWith(ev'.dgram.msg.path, "/maschine/button"))
    ]_vars
C30_Witness ==
  /\ ev.kind = "button_up" /\ ev.btn = "GroupA"
  /\ HasCall(dev_calls, "set_midi_note_base")
  /\ button_light = << >>
  /\ \A i \in PadIndices : pad_light[i] = Light(pad_color, PAD_RELEASED_BRIGHTNESS)
====
